---- MODULE Spec2Model ----
(***************************************************************************)
(* llmhub: one prompt is sent concurrently to every enabled provider       *)
(* (queryProviders), the answers are collected in two mutex-guarded maps,  *)
(* and one enabled provider is asked a second time to summarise the        *)
(* successful answers (summarizeAnswers).  The model follows main() of     *)
(* src/main.go statement by statement; each provider goroutine is a        *)
(* process with its own program counter.  Spec is the program as built:    *)
(* its only provider is the OpenAI stub.  queryProviders,                  *)
(* findSummarizerProvider and summarizeAnswers take any []Provider, so     *)
(* OpenSpec also runs lines 178-198 of main() on lists of arbitrary        *)
(* implementations of the Provider interface.                              *)
(***************************************************************************)
EXTENDS Integers, Sequences, FiniteSets, TLC

VARIABLES
    prompt,             \* flag -prompt
    summarizer,         \* flag -summarizer
    registry,           \* names of allProviders, in construction order
    cfg,                \* cfg.EnabledProviders, empty until loaded
    pc,                 \* position of main()
    enabledProviders,   \* result of getEnabledProviders
    di,                 \* index of the next provider of the dispatch loop
    gpc,                \* position of each provider goroutine
    ret,                \* what each goroutine's Query returned
    wg,                 \* sync.WaitGroup counter
    mu,                 \* sync.Mutex: 0 when free, else the holding goroutine
    results,            \* map provider name -> answer
    errs,               \* map provider name -> error
    calls,              \* per provider, the Query invocations it received
    deadline,           \* state of the context.WithTimeout timer
    summarizerProvider, \* findSummarizerProvider's result (0 is nil), -1 before
    summary,            \* what summarizeAnswers returned
    stdout,             \* lines printed on standard output
    exitCode,           \* process exit status, -1 while running
    fatalMsg            \* message of the fatal log entry, if any

vars == <<prompt, summarizer, registry, cfg, pc, enabledProviders, di, gpc,
          ret, wg, mu, results, errs, calls, deadline, summarizerProvider,
          summary, stdout, exitCode, fatalMsg>>

(***************************************************************************)
(* Bounds and input domains                                                *)
(***************************************************************************)
MaxProviders == 3

\* allProviders of getEnabledProviders: the OpenAI provider and no other
Registry == <<"openai">>

\* keys of "enabled_providers" in config.json: any strings, whether or not
\* a provider of that name is built
ConfigNames == {"openai", "anthropic"}

Prompts == {"", "q"}

SummarizerNames == ConfigNames \cup {"nosuch"}

Configs == [ConfigNames -> BOOLEAN]

\* names returned by Name() of the providers handed to queryProviders
OpenNames == <<"A", "B", "C", "D", "E">>

OpenSummarizers == {OpenNames[i] : i \in 1..MaxProviders} \cup {"nosuch"}

(***************************************************************************)
(* Values                                                                  *)
(***************************************************************************)
None == "none"

EmptyMap == [k \in {} |-> ""]

MapPut(m, k, v) == [x \in (DOMAIN m) \cup {k} |-> IF x = k THEN v ELSE m[x]]

NoRet == [kind |-> "none", val |-> "", late |-> FALSE]

Banner == "----- Final Verdict -----"

Header == "Summarize and provide a verdict for these answers:\n"

Terminal == {"Done", "Failed"}

(***************************************************************************)
(* Provider.Query: the answer a provider gives when its call succeeds      *)
(***************************************************************************)
Answer(p, q) ==
    IF p.impl = "OpenAIProvider" THEN "OpenAI answer to: " \o q
    ELSE p.name \o " answer to: " \o q

\* whether Query can return nil error, a non-nil error: the OpenAI stub
\* always answers, another implementation of the interface may fail
QueryOutcomes(p) == IF p.impl = "OpenAIProvider" THEN {TRUE} ELSE BOOLEAN

CanFail(p) == FALSE \in QueryOutcomes(p)

LastPrompt(received) == received[Len(received)].prompt

QueryError(p) == "error from " \o p.name

(***************************************************************************)
(* getEnabledProviders                                                     *)
(***************************************************************************)
allProviders(c, reg) ==
    [i \in 1..Len(reg) |->
        [name |-> reg[i], enabled |-> c[reg[i]], impl |-> "OpenAIProvider"]]

getEnabledProvidersNoFilter(c, reg) == allProviders(c, reg)

getEnabledProviders(c, reg) ==
    SelectSeq(allProviders(c, reg), LAMBDA p : p.enabled)

(***************************************************************************)
(* findSummarizerProvider: index of the first match, 0 for nil             *)
(***************************************************************************)
Matches(providers, name) ==
    {i \in 1..Len(providers) :
        providers[i].name = name /\ providers[i].enabled}

FirstOf(S) == IF S = {} THEN 0 ELSE CHOOSE i \in S : \A j \in S : i <= j

findSummarizerProviderFallback(providers, name) ==
    IF Matches(providers, name) = {} THEN 1 ELSE FirstOf(Matches(providers, name))

findSummarizerProviderAnswered(providers, name) ==
    FirstOf({i \in Matches(providers, name) : name \in DOMAIN results})

findSummarizerProvider(providers, name) == FirstOf(Matches(providers, name))

(***************************************************************************)
(* summarizeAnswers: the prompt built by ranging over the answers map in   *)
(* the iteration order `order`                                             *)
(***************************************************************************)
Orders(S) ==
    {o \in [1..Cardinality(S) -> S] :
        \A i, j \in 1..Cardinality(S) : i # j => o[i] # o[j]}

Entry(name, answer) == "[" \o name \o "]: " \o answer \o "\n"

RECURSIVE Entries(_, _, _)
Entries(answers, order, i) ==
    IF i > Len(order) THEN ""
    ELSE Entry(order[i], answers[order[i]]) \o Entries(answers, order, i + 1)

SummaryPromptWithErrors(answers, order) ==
    Header \o Entries(answers, order, 1)
           \o Entries(errs, CHOOSE o \in Orders(DOMAIN errs) : TRUE, 1)

SummaryPromptOriginal(answers, order) == prompt

SummaryPrompt(answers, order) == Header \o Entries(answers, order, 1)

(***************************************************************************)
(* Pieces of queryProviders                                                *)
(***************************************************************************)
\* the goroutine's branch on err (lines 99-105)
RecordOutcomeBoth(res, ers, name, r) ==
    IF r.kind = "err"
    THEN [results |-> MapPut(res, name, ""), errs |-> MapPut(ers, name, r.val)]
    ELSE [results |-> MapPut(res, name, r.val), errs |-> ers]

RecordOutcomeFirstWins(res, ers, name, r) ==
    IF r.kind = "err"
    THEN [results |-> res, errs |-> MapPut(ers, name, r.val)]
    ELSE [results |-> IF res = EmptyMap THEN MapPut(res, name, r.val) ELSE res,
          errs |-> ers]

RecordOutcomeLastError(res, ers, name, r) ==
    IF r.kind = "err"
    THEN [results |-> res, errs |-> MapPut(EmptyMap, name, r.val)]
    ELSE [results |-> MapPut(res, name, r.val), errs |-> ers]

MapDel(m, k) == [x \in (DOMAIN m) \ {k} |-> m[x]]

RecordOutcomeExclusive(res, ers, name, r) ==
    IF r.kind = "err"
    THEN [results |-> MapDel(res, name), errs |-> MapPut(ers, name, r.val)]
    ELSE [results |-> MapPut(res, name, r.val), errs |-> MapDel(ers, name)]

RecordOutcome(res, ers, name, r) ==
    IF r.kind = "err"
    THEN [results |-> res, errs |-> MapPut(ers, name, r.val)]
    ELSE [results |-> MapPut(res, name, r.val), errs |-> ers]

\* where the goroutine goes once Query has returned (line 97)
AfterQueryRetry(r) == IF r.kind = "err" THEN "spawned" ELSE "lock"

AfterQuery(r) == "lock"

\* mu.Lock() succeeds when the mutex is free
CanLockAlways(m) == TRUE

CanLock(m) == m = 0

\* wg.Wait() returns when the counter is zero
WaitReadyEarly(w) == w <= 1

WaitReadyOrDeadline(w) == w = 0 \/ deadline = "fired"

WaitReady(w) == w = 0

\* len(results) == 0 (line 180)
NoAnswersIgnored(res) == FALSE

NoAnswersAnyError(res) == Cardinality(DOMAIN res) < Len(enabledProviders)

NoAnswers(res) == Cardinality(DOMAIN res) = 0

(***************************************************************************)
(* Initial state: the flags are parsed, nothing else has happened          *)
(***************************************************************************)
Init ==
    /\ prompt \in Prompts
    /\ summarizer \in SummarizerNames
    /\ registry = Registry
    /\ cfg = EmptyMap
    /\ pc = "setupLogger"
    /\ enabledProviders = << >>
    /\ di = 1
    /\ gpc = << >>
    /\ ret = << >>
    /\ wg = 0
    /\ mu = 0
    /\ results = EmptyMap
    /\ errs = EmptyMap
    /\ calls = << >>
    /\ deadline = "unset"
    /\ summarizerProvider = -1
    /\ summary = None
    /\ stdout = << >>
    /\ exitCode = -1
    /\ fatalMsg = None

\* logger.Fatal(msg); os.Exit(1)
FatalExitZero(msg) ==
    /\ pc' = "Failed"
    /\ exitCode' = 0
    /\ fatalMsg' = msg

Fatal(msg) ==
    /\ pc' = "Failed"
    /\ exitCode' = 1
    /\ fatalMsg' = msg

(***************************************************************************)
(* main(), lines 138-176                                                   *)
(***************************************************************************)
SetupLogger ==
    /\ pc = "setupLogger"
    /\ \E ok \in BOOLEAN :
        IF ok THEN pc' = "checkPrompt" /\ UNCHANGED <<exitCode, fatalMsg>>
        ELSE Fatal("Logger setup failed")
    /\ UNCHANGED <<prompt, summarizer, registry, cfg, enabledProviders, di,
                   gpc, ret, wg, mu, results, errs, calls, deadline,
                   summarizerProvider, summary, stdout>>

CheckPromptSkipped ==
    /\ pc = "checkPrompt"
    /\ pc' = "loadConfig"
    /\ UNCHANGED <<prompt, summarizer, registry, cfg, enabledProviders, di,
                   gpc, ret, wg, mu, results, errs, calls, deadline,
                   summarizerProvider, summary, stdout, exitCode, fatalMsg>>

CheckPrompt ==
    /\ pc = "checkPrompt"
    /\ IF prompt = "" THEN Fatal("Prompt is required")
       ELSE pc' = "loadConfig" /\ UNCHANGED <<exitCode, fatalMsg>>
    /\ UNCHANGED <<prompt, summarizer, registry, cfg, enabledProviders, di,
                   gpc, ret, wg, mu, results, errs, calls, deadline,
                   summarizerProvider, summary, stdout>>

LoadConfig ==
    /\ pc = "loadConfig"
    /\ \/ /\ Fatal("Failed to load config")
          /\ UNCHANGED cfg
       \/ /\ cfg' \in Configs
          /\ pc' = "loadEnv"
          /\ UNCHANGED <<exitCode, fatalMsg>>
    /\ UNCHANGED <<prompt, summarizer, registry, enabledProviders, di,
                   gpc, ret, wg, mu, results, errs, calls, deadline,
                   summarizerProvider, summary, stdout>>

LoadEnv ==
    /\ pc = "loadEnv"
    /\ \E ok \in BOOLEAN :
        IF ok THEN pc' = "getProviders" /\ UNCHANGED <<exitCode, fatalMsg>>
        ELSE Fatal("Failed to load .env file")
    /\ UNCHANGED <<prompt, summarizer, registry, cfg, enabledProviders, di,
                   gpc, ret, wg, mu, results, errs, calls, deadline,
                   summarizerProvider, summary, stdout>>

\* lines 163-176: the API keys, the context with its timeout, the enabled set
GetProviders ==
    /\ pc = "getProviders"
    /\ deadline' = "armed"
    /\ enabledProviders' = getEnabledProviders(cfg, registry)
    /\ gpc' = [i \in 1..Len(enabledProviders') |-> "idle"]
    /\ calls' = [i \in 1..Len(enabledProviders') |-> << >>]
    /\ ret' = [i \in 1..Len(enabledProviders') |-> NoRet]
    /\ IF Len(enabledProviders') = 0 THEN Fatal("No enabled LLM providers")
       ELSE pc' = "dispatch" /\ UNCHANGED <<exitCode, fatalMsg>>
    /\ UNCHANGED <<prompt, summarizer, registry, cfg, di, wg, mu, results,
                   errs, summarizerProvider, summary, stdout>>

\* the 60 second timer of the context fires
DeadlineFires ==
    /\ deadline = "armed"
    /\ pc \notin Terminal
    /\ deadline' = "fired"
    /\ UNCHANGED <<prompt, summarizer, registry, cfg, pc, enabledProviders,
                   di, gpc, ret, wg, mu, results, errs, calls,
                   summarizerProvider, summary, stdout, exitCode, fatalMsg>>

(***************************************************************************)
(* queryProviders, lines 86-110                                            *)
(***************************************************************************)
\* one iteration of the loop: wg.Add(1); go func(prov) {...}(p)
Dispatch ==
    /\ pc = "dispatch"
    /\ di <= Len(enabledProviders)
    /\ wg' = wg + 1
    /\ gpc' = [gpc EXCEPT ![di] = "spawned"]
    /\ di' = di + 1
    /\ pc' = IF di = Len(enabledProviders) THEN "wait" ELSE "dispatch"
    /\ UNCHANGED <<prompt, summarizer, registry, cfg, enabledProviders, ret,
                   mu, results, errs, calls, deadline, summarizerProvider,
                   summary, stdout, exitCode, fatalMsg>>

\* prov.Query(ctx, prompt, nil) is entered
GoQueryCall(i) ==
    /\ gpc[i] = "spawned"
    /\ gpc' = [gpc EXCEPT ![i] = "querying"]
    /\ calls' = [calls EXCEPT ![i] =
                    Append(@, [prompt |-> prompt, phase |-> "fanout"])]
    /\ UNCHANGED <<prompt, summarizer, registry, cfg, pc, enabledProviders,
                   di, ret, wg, mu, results, errs, deadline,
                   summarizerProvider, summary, stdout, exitCode, fatalMsg>>

\* prov.Query returns an answer or an error
GoQueryReturn(i) ==
    /\ gpc[i] = "querying"
    /\ \E ok \in QueryOutcomes(enabledProviders[i]) :
        ret' = [ret EXCEPT ![i] =
                  [kind |-> IF ok THEN "ok" ELSE "err",
                   val  |-> IF ok THEN Answer(enabledProviders[i], prompt)
                                  ELSE QueryError(enabledProviders[i]),
                   late |-> deadline = "fired"]]
    /\ gpc' = [gpc EXCEPT ![i] = AfterQuery(ret'[i])]
    /\ UNCHANGED <<prompt, summarizer, registry, cfg, pc, enabledProviders,
                   di, wg, mu, results, errs, calls, deadline,
                   summarizerProvider, summary, stdout, exitCode, fatalMsg>>

\* mu.Lock()
GoLock(i) ==
    /\ gpc[i] = "lock"
    /\ CanLock(mu)
    /\ mu' = i
    /\ gpc' = [gpc EXCEPT ![i] = "write"]
    /\ UNCHANGED <<prompt, summarizer, registry, cfg, pc, enabledProviders,
                   di, ret, wg, results, errs, calls, deadline,
                   summarizerProvider, summary, stdout, exitCode, fatalMsg>>

\* errs[prov.Name()] = err, or results[prov.Name()] = answer
GoWrite(i) ==
    /\ gpc[i] = "write"
    /\ LET out == RecordOutcome(results, errs, enabledProviders[i].name, ret[i])
       IN  /\ results' = out.results
           /\ errs' = out.errs
    /\ gpc' = [gpc EXCEPT ![i] = "unlock"]
    /\ UNCHANGED <<prompt, summarizer, registry, cfg, pc, enabledProviders,
                   di, ret, wg, mu, calls, deadline, summarizerProvider,
                   summary, stdout, exitCode, fatalMsg>>

GoUnlockForgotten(i) ==
    /\ gpc[i] = "unlock"
    /\ gpc' = [gpc EXCEPT ![i] = "finish"]
    /\ UNCHANGED <<prompt, summarizer, registry, cfg, pc, enabledProviders,
                   di, ret, wg, mu, results, errs, calls, deadline,
                   summarizerProvider, summary, stdout, exitCode, fatalMsg>>

\* deferred mu.Unlock()
GoUnlock(i) ==
    /\ gpc[i] = "unlock"
    /\ mu' = IF mu = i THEN 0 ELSE mu
    /\ gpc' = [gpc EXCEPT ![i] = "finish"]
    /\ UNCHANGED <<prompt, summarizer, registry, cfg, pc, enabledProviders,
                   di, ret, wg, results, errs, calls, deadline,
                   summarizerProvider, summary, stdout, exitCode, fatalMsg>>

\* deferred wg.Done()
GoDone(i) ==
    /\ gpc[i] = "finish"
    /\ wg' = wg - 1
    /\ gpc' = [gpc EXCEPT ![i] = "done"]
    /\ UNCHANGED <<prompt, summarizer, registry, cfg, pc, enabledProviders,
                   di, ret, mu, results, errs, calls, deadline,
                   summarizerProvider, summary, stdout, exitCode, fatalMsg>>

\* wg.Wait() returns; return results, errs
Wait ==
    /\ pc = "wait"
    /\ WaitReady(wg)
    /\ pc' = "checkResults"
    /\ UNCHANGED <<prompt, summarizer, registry, cfg, enabledProviders, di,
                   gpc, ret, wg, mu, results, errs, calls, deadline,
                   summarizerProvider, summary, stdout, exitCode, fatalMsg>>

(***************************************************************************)
(* main(), lines 180-198                                                   *)
(***************************************************************************)
CheckResultsRetry ==
    /\ pc = "checkResults"
    /\ pc' = IF NoAnswers(results) THEN "getProviders" ELSE "findSummarizer"
    /\ UNCHANGED <<prompt, summarizer, registry, cfg, enabledProviders, di,
                   gpc, ret, wg, mu, results, errs, calls, deadline,
                   summarizerProvider, summary, stdout, exitCode, fatalMsg>>

CheckResults ==
    /\ pc = "checkResults"
    /\ IF NoAnswers(results) THEN Fatal("No providers returned an answer")
       ELSE pc' = "findSummarizer" /\ UNCHANGED <<exitCode, fatalMsg>>
    /\ UNCHANGED <<prompt, summarizer, registry, cfg, enabledProviders, di,
                   gpc, ret, wg, mu, results, errs, calls, deadline,
                   summarizerProvider, summary, stdout>>

FindSummarizer ==
    /\ pc = "findSummarizer"
    /\ summarizerProvider' = findSummarizerProvider(enabledProviders, summarizer)
    /\ IF summarizerProvider' = 0
       THEN Fatal("Summarizer provider not found or not enabled")
       ELSE pc' = "summarize" /\ UNCHANGED <<exitCode, fatalMsg>>
    /\ UNCHANGED <<prompt, summarizer, registry, cfg, enabledProviders, di,
                   gpc, ret, wg, mu, results, errs, calls, deadline,
                   summary, stdout>>

SummarizeCallRenewed ==
    /\ pc = "summarize"
    /\ \E order \in Orders(DOMAIN results) :
        calls' = [calls EXCEPT ![summarizerProvider] =
                    Append(@, [prompt |-> SummaryPrompt(results, order),
                               phase |-> "summary"])]
    /\ pc' = "summQuery"
    /\ deadline' = "armed"
    /\ UNCHANGED <<prompt, summarizer, registry, cfg, enabledProviders, di,
                   gpc, ret, wg, mu, results, errs,
                   summarizerProvider, summary, stdout, exitCode, fatalMsg>>

\* summarizeAnswers builds the prompt and enters provider.Query
SummarizeCall ==
    /\ pc = "summarize"
    /\ \E order \in Orders(DOMAIN results) :
        calls' = [calls EXCEPT ![summarizerProvider] =
                    Append(@, [prompt |-> SummaryPrompt(results, order),
                               phase |-> "summary"])]
    /\ pc' = "summQuery"
    /\ UNCHANGED <<prompt, summarizer, registry, cfg, enabledProviders, di,
                   gpc, ret, wg, mu, results, errs, deadline,
                   summarizerProvider, summary, stdout, exitCode, fatalMsg>>

\* provider.Query returns; main checks err (lines 191-195)
SummarizeReturn ==
    /\ pc = "summQuery"
    /\ \E ok \in QueryOutcomes(enabledProviders[summarizerProvider]) :
        IF ok
        THEN /\ summary' = Answer(enabledProviders[summarizerProvider],
                                  LastPrompt(calls[summarizerProvider]))
             /\ pc' = "print"
             /\ UNCHANGED <<exitCode, fatalMsg>>
        ELSE /\ Fatal("Summarizer failed")
             /\ UNCHANGED summary
    /\ UNCHANGED <<prompt, summarizer, registry, cfg, enabledProviders, di,
                   gpc, ret, wg, mu, results, errs, calls, deadline,
                   summarizerProvider, stdout>>

\* the banner, the verdict, and the return from main
PrintVerdict ==
    /\ pc = "print"
    /\ stdout' = <<Banner, summary>>
    /\ pc' = "Done"
    /\ exitCode' = 0
    /\ UNCHANGED <<prompt, summarizer, registry, cfg, enabledProviders, di,
                   gpc, ret, wg, mu, results, errs, calls, deadline,
                   summarizerProvider, summary, fatalMsg>>

Goroutine(i) ==
    \/ GoQueryCall(i)
    \/ GoQueryReturn(i)
    \/ GoLock(i)
    \/ GoWrite(i)
    \/ GoUnlock(i)
    \/ GoDone(i)

\* os.Exit ends the process, goroutines included
Running == pc \notin Terminal

Next ==
    \/ SetupLogger
    \/ CheckPrompt
    \/ LoadConfig
    \/ LoadEnv
    \/ GetProviders
    \/ DeadlineFires
    \/ Dispatch
    \/ \E i \in 1..Len(enabledProviders) : Running /\ Goroutine(i)
    \/ Wait
    \/ CheckResults
    \/ FindSummarizer
    \/ SummarizeCall
    \/ SummarizeReturn
    \/ PrintVerdict

Spec == Init /\ [][Next]_vars

(***************************************************************************)
(* Lines 178-198 of main() on a given provider list.  queryProviders,      *)
(* findSummarizerProvider and summarizeAnswers are written against the     *)
(* Provider interface; the lists below are their `providers` argument,     *)
(* filled with implementations whose Query may answer or fail.             *)
(***************************************************************************)
\* an enabled provider called n whose Query is not the stub's
OtherProvider(n) == [name |-> n, enabled |-> TRUE, impl |-> "Provider"]

OpenLists ==
    {[i \in 1..n |-> OtherProvider(OpenNames[i])] : n \in 1..MaxProviders}

\* main() at line 178: the prompt is not empty, the context is created,
\* and getEnabledProviders has returned the non-empty list `providers`
AtFanout(s, providers) ==
    /\ prompt = "q"
    /\ summarizer = s
    /\ registry = [i \in 1..Len(providers) |-> providers[i].name]
    /\ cfg = [n \in {providers[i].name : i \in 1..Len(providers)} |-> TRUE]
    /\ pc = "dispatch"
    /\ enabledProviders = providers
    /\ di = 1
    /\ gpc = [i \in 1..Len(providers) |-> "idle"]
    /\ ret = [i \in 1..Len(providers) |-> NoRet]
    /\ wg = 0
    /\ mu = 0
    /\ results = EmptyMap
    /\ errs = EmptyMap
    /\ calls = [i \in 1..Len(providers) |-> << >>]
    /\ deadline = "armed"
    /\ summarizerProvider = -1
    /\ summary = None
    /\ stdout = << >>
    /\ exitCode = -1
    /\ fatalMsg = None

InitOpen ==
    \E s \in OpenSummarizers : \E providers \in OpenLists :
        AtFanout(s, providers)

\* the program as built, or its lines 178-198 on any provider list
OpenInit == Init \/ InitOpen

OpenSpec == OpenInit /\ [][Next]_vars

(***************************************************************************)
(* Vocabulary of the properties                                            *)
(***************************************************************************)
MsgNoAnswer == "No providers returned an answer"

MsgNotFound == "Summarizer provider not found or not enabled"

MsgSummarizerFailed == "Summarizer failed"

Goroutines == 1..Len(enabledProviders)

NamesOf(providers) == {providers[i].name : i \in 1..Len(providers)}

DistinctNames(providers) ==
    \A i, j \in 1..Len(providers) :
        i # j => providers[i].name # providers[j].name

\* queryProviders has returned to main
FanoutReturned ==
    \/ pc \in {"checkResults", "findSummarizer", "summarize", "summQuery",
               "print", "Done"}
    \/ pc = "Failed" /\ fatalMsg \in {MsgNoAnswer, MsgNotFound, MsgSummarizerFailed}

FanoutCalls(i) == SelectSeq(calls[i], LAMBDA c : c.phase = "fanout")

SummaryCalls(i) == SelectSeq(calls[i], LAMBDA c : c.phase = "summary")

InCritical == {i \in Goroutines : gpc[i] \in {"write", "unlock"}}

\* goroutine i has stored its outcome in one of the maps
Recorded(i) == gpc[i] \in {"unlock", "finish", "done"}

(***************************************************************************)
(* C1: when queryProviders returns for providers with pairwise distinct    *)
(* names, the keys of results and of errs are disjoint, together they are  *)
(* exactly the names of the providers passed in, and the two sizes add up  *)
(* to the number of providers, whatever the interleaving was.              *)
(***************************************************************************)
C1_Partition ==
    (FanoutReturned /\ DistinctNames(enabledProviders)) =>
        /\ (DOMAIN results) \cap (DOMAIN errs) = {}
        /\ (DOMAIN results) \cup (DOMAIN errs) = NamesOf(enabledProviders)
        /\ Cardinality(DOMAIN results) + Cardinality(DOMAIN errs)
              = Len(enabledProviders)

C1_Witness ==
    /\ FanoutReturned
    /\ Len(enabledProviders) >= 3
    /\ DOMAIN results # {}
    /\ DOMAIN errs # {}

(***************************************************************************)
(* C2: within one fan-out every provider's Query is entered exactly once:  *)
(* never twice at any moment, once as soon as its goroutine is past the    *)
(* call, once for every provider when queryProviders returns; a provider   *)
(* whose Query returned an error is in errs and has no further call.       *)
(***************************************************************************)
C2_QueriedOnce ==
    \A i \in Goroutines :
        /\ Len(FanoutCalls(i)) <= 1
        /\ gpc[i] \notin {"idle", "spawned"} => Len(FanoutCalls(i)) = 1
        /\ FanoutReturned => Len(FanoutCalls(i)) = 1
        /\ (Recorded(i) /\ ret[i].kind = "err") =>
              /\ enabledProviders[i].name \in DOMAIN errs
              /\ Len(FanoutCalls(i)) = 1

C2_Witness ==
    /\ FanoutReturned
    /\ \E i, j \in Goroutines : ret[i].kind = "err" /\ ret[j].kind = "ok"

(***************************************************************************)
(* C3: once wg.Wait has returned every dispatched goroutine has finished   *)
(* and has recorded exactly one outcome, and while the summarizer's Query  *)
(* is prepared or in flight no fan-out Query is in flight.                 *)
(***************************************************************************)
C3_JoinBarrier ==
    /\ FanoutReturned =>
          \A i \in Goroutines :
              /\ gpc[i] = "done"
              /\ ret[i].kind \in {"ok", "err"}
              /\ (enabledProviders[i].name \in DOMAIN results)
                    # (enabledProviders[i].name \in DOMAIN errs)
    /\ (\E i \in Goroutines : SummaryCalls(i) # << >>) =>
          \A i \in Goroutines : gpc[i] = "done"
    /\ pc \in {"summarize", "summQuery"} =>
          \A i \in Goroutines : gpc[i] # "querying"

C3_Witness ==
    /\ pc = "summQuery"
    /\ Len(enabledProviders) >= 2
    /\ \A i \in Goroutines : gpc[i] = "done"

(***************************************************************************)
(* C4: at most one goroutine is between mu.Lock and mu.Unlock, it is the   *)
(* holder of the mutex, and main reads the maps only when no goroutine     *)
(* holds or awaits the mutex.                                              *)
(***************************************************************************)
C4_MutualExclusion ==
    /\ Cardinality(InCritical) <= 1
    /\ InCritical = {mu} \ {0}
    /\ FanoutReturned =>
          /\ mu = 0
          /\ \A i \in Goroutines : gpc[i] \notin {"lock", "write", "unlock"}

C4_Witness ==
    \E i, j \in Goroutines :
        /\ gpc[i] = "write"
        /\ gpc[j] = "lock"

(***************************************************************************)
(* C5: for a provider whose Query gives an error once the deadline has     *)
(* fired: if its Query outlasted the deadline its name is in errs, and if  *)
(* its Query succeeded before the deadline its name is in results with     *)
(* the answer it returned, whatever the other providers did.               *)
(***************************************************************************)
HonoursDeadline(i) == ret[i].late => ret[i].kind = "err"

C5_Independent ==
    \A i \in Goroutines :
        (Recorded(i) /\ HonoursDeadline(i) /\ DistinctNames(enabledProviders)) =>
            /\ ret[i].late =>
                  /\ enabledProviders[i].name \in DOMAIN errs
                  /\ enabledProviders[i].name \notin DOMAIN results
            /\ (ret[i].kind = "ok" /\ ~ret[i].late) =>
                  /\ enabledProviders[i].name \in DOMAIN results
                  /\ results[enabledProviders[i].name] = ret[i].val
                  /\ enabledProviders[i].name \notin DOMAIN errs

C5_Witness ==
    /\ FanoutReturned
    /\ \E i, j \in Goroutines :
          /\ i < j
          /\ ret[i].late /\ ret[i].kind = "err"
          /\ ret[j].kind = "ok" /\ ~ret[j].late
          /\ enabledProviders[i].name \in DOMAIN errs
          /\ enabledProviders[j].name \in DOMAIN results

(***************************************************************************)
(* More vocabulary                                                         *)
(***************************************************************************)
AllFailed == \A i \in Goroutines : ret[i].kind = "err"

AnySucceeded == \E i \in Goroutines : ret[i].kind = "ok"

NoSummaryQuery == \A i \in Goroutines : SummaryCalls(i) = << >>

NoQueryAtAll == \A i \in Goroutines : calls[i] = << >>

\* getEnabledProviders has run
Resolved == deadline # "unset"

\* the -summarizer flag names one of the enabled providers
SummarizerEnabled ==
    \E i \in Goroutines :
        enabledProviders[i].name = summarizer /\ enabledProviders[i].enabled

\* the -summarizer flag names a provider that the configuration disables
SummarizerDisabled == summarizer \in DOMAIN cfg /\ ~cfg[summarizer]

\* the enabled providers are known and none has the name
SummarizerAbsent == Resolved /\ ~SummarizerEnabled

OriginalCall == [prompt |-> prompt, phase |-> "fanout"]

(***************************************************************************)
(* C6: when every enabled provider failed in the fan-out, main goes from   *)
(* the check of results to Failed: findSummarizerProvider is never         *)
(* called, no provider gets a second Query, nothing is printed.            *)
(***************************************************************************)
C6_AllFailHalts ==
    (FanoutReturned /\ AllFailed) =>
        /\ results = EmptyMap
        /\ pc \in {"checkResults", "Failed"}
        /\ pc = "Failed" => (fatalMsg = MsgNoAnswer /\ exitCode = 1)
        /\ summarizerProvider = -1
        /\ NoSummaryQuery
        /\ summary = None
        /\ stdout = << >>

C6_Witness ==
    /\ pc = "Failed"
    /\ fatalMsg = MsgNoAnswer
    /\ Len(enabledProviders) >= 2
    /\ AllFailed
    /\ SummarizerEnabled

(***************************************************************************)
(* C7: the step after the fan-out fails the run exactly when no provider   *)
(* succeeded; with at least one success, however many others failed, it    *)
(* moves on to the selection of the summarizer.                            *)
(***************************************************************************)
C7_PartialSuccess ==
    [][(pc = "checkResults" /\ pc' # pc) =>
          /\ (pc' = "Failed") <=> ~AnySucceeded
          /\ AnySucceeded => (pc' = "findSummarizer" /\ fatalMsg' = None)]_vars

C7_Witness ==
    /\ pc = "findSummarizer"
    /\ Cardinality(DOMAIN results) = 1
    /\ Cardinality(DOMAIN errs) >= 2

(***************************************************************************)
(* C8: when no enabled provider has the requested summarizer name, the     *)
(* run never reaches summarization: no provider gets a summarization       *)
(* Query, nothing is printed, and the run can only end in Failed.          *)
(***************************************************************************)
C8_AbsentSummarizer ==
    SummarizerAbsent =>
        /\ NoSummaryQuery
        /\ summarizerProvider \in {-1, 0}
        /\ pc \notin {"summarize", "summQuery", "print", "Done"}
        /\ summary = None
        /\ stdout = << >>
        /\ summarizerProvider = 0 =>
              (pc = "Failed" /\ fatalMsg = MsgNotFound /\ exitCode = 1)

C8_Witness ==
    /\ pc = "Failed"
    /\ fatalMsg = MsgNotFound
    /\ summarizer \notin NamesOf(enabledProviders)
    /\ Len(enabledProviders) >= 2

(***************************************************************************)
(* C9 as stated: when the summarizer name refers to a disabled provider,   *)
(* no provider's Query is invoked at any point of the run.                 *)
(***************************************************************************)
C9_Original == SummarizerDisabled => NoQueryAtAll

(***************************************************************************)
(* C9 amended: when the summarizer name refers to a disabled provider the  *)
(* run can only end in a fatal error with exit code 1: it never reaches    *)
(* Done, no summarization Query is issued and no verdict is printed.  The  *)
(* lookup of the summarizer does not come before the fan-out: only         *)
(* enabled providers are queried, each at most once and with the original  *)
(* prompt, and when the run fails at the lookup every enabled provider     *)
(* has been queried exactly once.                                          *)
(***************************************************************************)
C9_DisabledSummarizer ==
    SummarizerDisabled =>
        /\ pc # "Done"
        /\ pc \in Terminal => (pc = "Failed" /\ exitCode = 1)
        /\ NoSummaryQuery
        /\ summary = None
        /\ stdout = << >>
        /\ \A i \in Goroutines :
              /\ cfg[enabledProviders[i].name]
              /\ calls[i] \in {<< >>, <<OriginalCall>>}
              /\ fatalMsg = MsgNotFound => calls[i] = <<OriginalCall>>

C9_Witness ==
    /\ SummarizerDisabled
    /\ pc = "Failed"
    /\ fatalMsg = MsgNotFound
    /\ \E i \in Goroutines : calls[i] = <<OriginalCall>>

(***************************************************************************)
(* C10: the selection does not look at the fan-out outcome: when the       *)
(* named provider is enabled the lookup never fails and selects it, also   *)
(* when its own fan-out Query failed, and the summarization Query goes to  *)
(* it as its second call, with the prompt built from results.              *)
(***************************************************************************)
C10_SelectionIndependent ==
    SummarizerEnabled =>
        /\ fatalMsg # MsgNotFound
        /\ summarizerProvider # 0
        /\ pc \in {"summarize", "summQuery", "print", "Done"} =>
              /\ summarizerProvider \in Goroutines
              /\ enabledProviders[summarizerProvider].name = summarizer
        /\ pc \in {"summQuery", "print", "Done"} =>
              /\ Len(calls[summarizerProvider]) = 2
              /\ calls[summarizerProvider][1] = OriginalCall
              /\ calls[summarizerProvider][2].phase = "summary"
              /\ calls[summarizerProvider][2].prompt \in
                    {SummaryPrompt(results, o) : o \in Orders(DOMAIN results)}

C10_Witness ==
    /\ pc = "summQuery"
    /\ summarizer \in DOMAIN errs
    /\ summarizer \notin DOMAIN results
    /\ Len(calls[summarizerProvider]) = 2

(***************************************************************************)
(* Reading a prompt back: the text after the header, cut at each newline   *)
(***************************************************************************)
NewlineAt(s) == {i \in 1..Len(s) : SubSeq(s, i, i) = "\n"}

RECURSIVE Lines(_)
Lines(s) ==
    IF NewlineAt(s) = {} THEN << >>
    ELSE LET n == FirstOf(NewlineAt(s))
         IN  <<SubSeq(s, 1, n - 1)>> \o Lines(SubSeq(s, n + 1, Len(s)))

HasPrefix(s, pre) == Len(s) >= Len(pre) /\ SubSeq(s, 1, Len(pre)) = pre

\* summarizeAnswers has handed its prompt to the summarizer
SummarySent ==
    \/ pc \in {"summQuery", "print", "Done"}
    \/ pc = "Failed" /\ fatalMsg = MsgSummarizerFailed

SentPrompt == LastPrompt(calls[summarizerProvider])

SentEntries == Lines(SubSeq(SentPrompt, Len(Header) + 1, Len(SentPrompt)))

(***************************************************************************)
(* C11: the prompt handed to the summarizer is the header followed by one  *)
(* "[name]: answer" line for each provider in results, with that           *)
(* provider's answer, and no line for a provider in errs; the set of       *)
(* lines is the same for every iteration order of the map; the verdict     *)
(* printed is what the summarizer answered for that prompt.                *)
(***************************************************************************)
C11_PromptEntries ==
    (SummarySent /\ DistinctNames(enabledProviders)) =>
        /\ HasPrefix(SentPrompt, Header)
        /\ Len(SentEntries) = Cardinality(DOMAIN results)
        /\ {SentEntries[k] \o "\n" : k \in 1..Len(SentEntries)}
              = {Entry(enabledProviders[i].name, ret[i].val) :
                    i \in {j \in Goroutines : ret[j].kind = "ok"}}
        /\ \A k \in 1..Len(SentEntries) : \A n \in DOMAIN errs :
              ~HasPrefix(SentEntries[k], "[" \o n \o "]")
        /\ pc \in {"print", "Done"} =>
              summary = Answer(enabledProviders[summarizerProvider], SentPrompt)
        /\ pc = "Done" => stdout = <<Banner, summary>>

C11_Witness ==
    /\ pc = "Done"
    /\ Cardinality(DOMAIN results) = 2
    /\ Cardinality(DOMAIN errs) = 1
    /\ \E i, j \in Goroutines :
          /\ i < j
          /\ SentEntries[1] \o "\n" = Entry(enabledProviders[j].name, ret[j].val)
          /\ SentEntries[2] \o "\n" = Entry(enabledProviders[i].name, ret[i].val)

(***************************************************************************)
(* C12: standard output holds the banner and the verdict, and the exit     *)
(* code is 0, exactly when the run is Done; every fatal failure, a failed  *)
(* summarization Query included, exits with code 1 with nothing on         *)
(* standard output; after a failure nothing runs again.                    *)
(***************************************************************************)
ExitState ==
    /\ (pc = "Done") <=> (exitCode = 0)
    /\ (pc = "Done") <=> (stdout = <<Banner, summary>>)
    /\ (pc # "Done") <=> (stdout = << >>)
    /\ (pc = "Failed") <=> (exitCode = 1)
    /\ (pc = "Failed") <=> (fatalMsg # None)
    /\ (pc \notin Terminal) <=> (exitCode = -1)

C12_ExitCodes ==
    /\ []ExitState
    /\ [][pc = "Failed" => UNCHANGED vars]_vars
    /\ [][(pc = "summQuery" /\ pc' = "Failed") =>
            (exitCode' = 1 /\ stdout' = << >> /\ fatalMsg' = MsgSummarizerFailed
             /\ calls' = calls)]_vars

C12_Witness ==
    /\ pc = "Failed"
    /\ fatalMsg = MsgSummarizerFailed
    /\ exitCode = 1
    /\ stdout = << >>
    /\ DOMAIN results # {}

(***************************************************************************)
(* C13: a run with an empty prompt, with a configuration that cannot be    *)
(* loaded, or with no enabled provider ends in Failed before any network   *)
(* activity: no goroutine is started and no provider's Query is entered.   *)
(***************************************************************************)
MsgPrompt == "Prompt is required"

MsgConfig == "Failed to load config"

MsgNoProviders == "No enabled LLM providers"

\* the configuration is loaded and enables no provider of allProviders
NoneEnabled ==
    cfg # EmptyMap /\ \A i \in 1..Len(registry) : ~cfg[registry[i]]

NoNetwork ==
    /\ \A i \in DOMAIN calls : calls[i] = << >>
    /\ \A i \in DOMAIN gpc : gpc[i] = "idle"
    /\ wg = 0
    /\ results = EmptyMap
    /\ errs = EmptyMap

C13_NoNetworkOnBadInput ==
    /\ prompt = "" =>
          /\ NoNetwork
          /\ pc \in {"setupLogger", "checkPrompt", "Failed"}
          /\ fatalMsg \in {None, "Logger setup failed", MsgPrompt}
    /\ fatalMsg = MsgConfig =>
          /\ NoNetwork
          /\ pc = "Failed"
          /\ cfg = EmptyMap
    /\ NoneEnabled =>
          /\ NoNetwork
          /\ pc \in {"loadEnv", "getProviders", "Failed"}
          /\ fatalMsg \in {None, "Failed to load .env file", MsgNoProviders}
    /\ fatalMsg \in {MsgPrompt, MsgConfig, MsgNoProviders} =>
          (pc = "Failed" /\ exitCode = 1 /\ NoNetwork)

C13_Witness ==
    /\ pc = "Failed"
    /\ fatalMsg = MsgNoProviders
    /\ NoneEnabled
    /\ prompt # ""
    /\ deadline = "armed"
    /\ enabledProviders = << >>

(***************************************************************************)
(* The states of the orchestrator, read off the position of main()         *)
(***************************************************************************)
Stage ==
    CASE pc \in {"setupLogger", "checkPrompt", "loadConfig"} -> "Init"
      [] pc \in {"loadEnv", "getProviders"} -> "ConfigLoaded"
      [] pc \in {"dispatch", "wait", "checkResults"} -> "ProvidersResolved"
      [] pc = "findSummarizer" -> "FannedOut"
      [] pc \in {"summarize", "summQuery"} -> "SummarizerSelected"
      [] pc = "print" -> "Summarized"
      [] pc = "Done" -> "Done"
      [] pc = "Failed" -> "Failed"

StageOrder == <<"Init", "ConfigLoaded", "ProvidersResolved", "FannedOut",
                "SummarizerSelected", "Summarized", "Done">>

Rank(st) == CHOOSE k \in 1..Len(StageOrder) : StageOrder[k] = st

\* some step from the current state ends the run in Failed
FailStepEnabled == ENABLED (Next /\ pc' = "Failed")

\* one step of the orchestrator: stay, advance by one, or fail
StageStep ==
    \/ Stage' = Stage
    \/ Stage \notin {"Done", "Failed"} /\ Stage' = "Failed"
    \/ /\ Stage \notin {"Done", "Failed"}
       /\ Stage' # "Failed"
       /\ Rank(Stage') = Rank(Stage) + 1

(***************************************************************************)
(* C14 as stated, at its failing case: Failed is reachable from every      *)
(* non-terminal state, hence from Summarized, whose only other successor   *)
(* is the terminal Done: in Summarized some step leads to Failed.          *)
(***************************************************************************)
C14_Original == Stage = "Summarized" => FailStepEnabled

(***************************************************************************)
(* C14 amended: the orchestrator moves through Init, ConfigLoaded,         *)
(* ProvidersResolved, FannedOut, SummarizerSelected, Summarized, Done in   *)
(* that order, one state at a time, never back; Done and Failed are        *)
(* terminal; Failed can be entered from Init, from ConfigLoaded, from      *)
(* ProvidersResolved when no provider answered, from FannedOut when the    *)
(* summarizer is not among the enabled providers, and from                 *)
(* SummarizerSelected exactly when the summarizer's Query can fail, but    *)
(* not from Summarized, which can only be followed by Done.                *)
(***************************************************************************)
C14_StageOrder ==
    /\ [][StageStep]_vars
    /\ [][(Stage \in {"Done", "Failed"}) => (UNCHANGED vars)]_vars
    /\ [][(Stage = "Summarized") => (Stage' \in {"Summarized", "Done"})]_vars
    /\ [](Stage = "Summarized" => ~FailStepEnabled)
    /\ [](pc = "loadConfig" => FailStepEnabled)
    /\ [](pc = "loadEnv" => FailStepEnabled)
    /\ []((pc = "checkResults" /\ ~AnySucceeded) => FailStepEnabled)
    /\ []((pc = "findSummarizer" /\ SummarizerAbsent) => FailStepEnabled)
    /\ [](pc = "summQuery" =>
            (FailStepEnabled <=> CanFail(enabledProviders[summarizerProvider])))

C14_Witness ==
    /\ Stage = "Summarized"
    /\ ~FailStepEnabled
    /\ summary # None
    /\ DOMAIN errs # {}

(***************************************************************************)
(* C15: the key sets depend only on the providers and on what each Query   *)
(* returned, not on the schedule: at every moment results holds exactly    *)
(* the names of the providers that recorded an answer and errs those that  *)
(* recorded an error, so when queryProviders returns the two key sets are  *)
(* the succeeded and the failed providers, whatever the interleaving.      *)
(***************************************************************************)
Succeeded == {i \in Goroutines : ret[i].kind = "ok"}

Failing == {i \in Goroutines : ret[i].kind = "err"}

C15_ScheduleIndependent ==
    DistinctNames(enabledProviders) =>
        /\ DOMAIN results =
              {enabledProviders[i].name : i \in {j \in Succeeded : Recorded(j)}}
        /\ DOMAIN errs =
              {enabledProviders[i].name : i \in {j \in Failing : Recorded(j)}}
        /\ FanoutReturned =>
              /\ DOMAIN results = {enabledProviders[i].name : i \in Succeeded}
              /\ DOMAIN errs = {enabledProviders[i].name : i \in Failing}

\* the second provider's Query came back before the first one's
C15_Witness ==
    /\ FanoutReturned
    /\ \E i, j \in Goroutines :
          /\ i < j
          /\ ret[i].late /\ ~ret[j].late
          /\ ret[i].kind = "err" /\ ret[j].kind = "err"
    /\ Succeeded # {}

(***************************************************************************)
(* C16: once the summarization Query has been issued, the selected         *)
(* summarizer has received exactly two calls, the original prompt during   *)
(* the fan-out and then the synthesized prompt, and the two prompts        *)
(* differ; every other enabled provider has received exactly one call,     *)
(* and this stays so until the run ends.                                   *)
(***************************************************************************)
C16_TwoCalls ==
    SummarySent =>
        /\ summarizerProvider \in Goroutines
        /\ Len(calls[summarizerProvider]) = 2
        /\ calls[summarizerProvider][1] = OriginalCall
        /\ calls[summarizerProvider][2].phase = "summary"
        /\ calls[summarizerProvider][2].prompt # calls[summarizerProvider][1].prompt
        /\ \A i \in Goroutines \ {summarizerProvider} :
              calls[i] = <<OriginalCall>>

C16_Witness ==
    /\ pc = "Done"
    /\ Len(enabledProviders) >= 2
    /\ Len(calls[summarizerProvider]) = 2
    /\ \E i \in Goroutines : i # summarizerProvider /\ Len(calls[i]) = 1

(***************************************************************************)
(* C17: there is one deadline per run, armed once when main creates the    *)
(* context and never armed again, and every Query of the run, fan-out and  *)
(* summarizer alike, runs under it; a deadline that fired during the       *)
(* fan-out is still fired afterwards, and a summarizer Query that gives    *)
(* no answer once the deadline has fired ends the run in Failed although   *)
(* results is not empty.                                                   *)
(***************************************************************************)
DeadlineStep ==
    deadline' # deadline =>
        \/ deadline = "unset" /\ deadline' = "armed" /\ pc = "getProviders"
        \/ deadline = "armed" /\ deadline' = "fired"

\* the summarizer's Query returns without an answer after the deadline
LateSummarizerStep ==
    /\ pc = "summQuery"
    /\ pc' # pc
    /\ deadline = "fired"
    /\ summary' = None

C17_SingleDeadline ==
    /\ [][DeadlineStep]_vars
    /\ [][LateSummarizerStep =>
            (/\ pc' = "Failed"
             /\ fatalMsg' = MsgSummarizerFailed
             /\ exitCode' = 1
             /\ stdout' = << >>
             /\ results' # EmptyMap)]_vars
    /\ []((FanoutReturned /\ \E i \in Goroutines : ret[i].late) =>
             deadline = "fired")
    /\ []((SummarySent \/ \E i \in Goroutines : gpc[i] # "idle") =>
             deadline \in {"armed", "fired"})

C17_Witness ==
    /\ pc = "Failed"
    /\ fatalMsg = MsgSummarizerFailed
    /\ deadline = "fired"
    /\ \E i \in Goroutines : ret[i].late
    /\ results # EmptyMap

(***************************************************************************)
(* Fair scheduling: as long as main or a goroutine can take a step, or a   *)
(* Query that was entered can return, one of them eventually does.  The    *)
(* timer is under no obligation to fire.                                   *)
(***************************************************************************)
MainStep ==
    \/ SetupLogger
    \/ CheckPrompt
    \/ LoadConfig
    \/ LoadEnv
    \/ GetProviders
    \/ Dispatch
    \/ Wait
    \/ CheckResults
    \/ FindSummarizer
    \/ SummarizeCall
    \/ SummarizeReturn
    \/ PrintVerdict

GoroutineStep == \E i \in Goroutines : Running /\ Goroutine(i)

\* some thread of the program that can run does run
Progress == MainStep \/ GoroutineStep

FairSpec ==
    /\ OpenInit
    /\ [][Next]_vars
    /\ WF_vars(Progress)

(***************************************************************************)
(* C18: when every Query returns and scheduling is fair, every run         *)
(* reaches Done or Failed; wg.Wait always returns and the mutex is always  *)
(* released.                                                               *)
(***************************************************************************)
C18_Terminates ==
    <>(/\ pc \in Terminal
       /\ mu = 0
       /\ wg = 0
       /\ \A i \in Goroutines : gpc[i] \in {"idle", "done"})

C18_Witness ==
    /\ pc \in Terminal
    /\ Len(enabledProviders) >= 2
    /\ \A i \in Goroutines : gpc[i] = "done"
    /\ mu = 0
    /\ wg = 0

(***************************************************************************)
(* C19: queryProviders has no deadline of its own: as long as one          *)
(* provider's Query has not returned, main stays inside queryProviders,    *)
(* also after the deadline has fired and after all other providers have    *)
(* recorded their outcome; so if that Query never returns the run reaches  *)
(* neither Done nor Failed.                                                *)
(***************************************************************************)
QueryInFlight == \E i \in Goroutines : gpc[i] = "querying"

C19_NoOwnDeadline ==
    /\ [](QueryInFlight =>
            /\ pc \in {"dispatch", "wait"}
            /\ wg > 0
            /\ exitCode = -1)
    /\ [][(QueryInFlight /\ QueryInFlight') => pc' \in {"dispatch", "wait"}]_vars

C19_Witness ==
    /\ pc = "wait"
    /\ deadline = "fired"
    /\ Len(enabledProviders) >= 3
    /\ \E i \in Goroutines :
          /\ gpc[i] = "querying"
          /\ \A j \in Goroutines \ {i} : gpc[j] = "done"
    /\ ~ENABLED Wait

(***************************************************************************)
(* Provider lists with a repeated name: queryProviders takes any           *)
(* []Provider and the names are whatever Name() returns.  The lists are    *)
(* the longest open list with one entry named like the first, or with all  *)
(* entries named like the first.                                           *)
(***************************************************************************)
DupLists ==
    {[i \in 1..MaxProviders |->
        OtherProvider(IF i = k THEN OpenNames[1] ELSE OpenNames[i])] :
            k \in 2..MaxProviders}
    \cup {[i \in 1..MaxProviders |-> OtherProvider(OpenNames[1])]}

InitDup ==
    \/ Init
    \/ \E providers \in DupLists : AtFanout(OpenNames[1], providers)

DupSpec == InitDup /\ [][Next]_vars

SameName(i, j) ==
    i # j /\ enabledProviders[i].name = enabledProviders[j].name

(***************************************************************************)
(* C20: queryProviders accepts providers that share a name and writes      *)
(* their outcomes under the same key: when it returns, results holds the   *)
(* names of the providers that succeeded and errs the names of those that  *)
(* failed; two same-named providers with the same kind of outcome make     *)
(* len(results) + len(errs) smaller than the number of providers, and two  *)
(* same-named providers of which one succeeded and one failed put the      *)
(* name in both maps.                                                      *)
(***************************************************************************)
C20_DuplicateNames ==
    FanoutReturned =>
        /\ DOMAIN results = {enabledProviders[i].name : i \in Succeeded}
        /\ DOMAIN errs = {enabledProviders[i].name : i \in Failing}
        /\ Cardinality(DOMAIN results) + Cardinality(DOMAIN errs)
              <= Len(enabledProviders)
        /\ \A i, j \in Goroutines :
              (SameName(i, j) /\ ret[i].kind = ret[j].kind) =>
                  Cardinality(DOMAIN results) + Cardinality(DOMAIN errs)
                      < Len(enabledProviders)
        /\ \A i, j \in Goroutines :
              (SameName(i, j) /\ ret[i].kind = "ok" /\ ret[j].kind = "err") =>
                  enabledProviders[i].name \in (DOMAIN results) \cap (DOMAIN errs)

C20_Witness ==
    /\ FanoutReturned
    /\ ~DistinctNames(enabledProviders)
    /\ (DOMAIN results) \cap (DOMAIN errs) # {}
    /\ Cardinality(DOMAIN results) + Cardinality(DOMAIN errs)
          < Len(enabledProviders)

====
